---- MODULE Spec2Model ----
(***************************************************************************)
(* A model of the booking API test framework: the Booking data model, the  *)
(* session-backed BaseAPIClient, the BookingService built on it (with its  *)
(* lazily cached auth token) and the pytest fixtures that own the service  *)
(* and the bookings created for a test.  The remote service is the         *)
(* environment: every request is answered by a response it chooses, or by  *)
(* a transport failure.                                                    *)
(***************************************************************************)
EXTENDS Integers, Sequences, FiniteSets, TLC

VARIABLES
    token,          \* BookingService._token
    sent,           \* the exchanges of the latest operation, in wire order
    result,         \* what the latest operation gave its caller
    nCalls,         \* operations called on the service so far
    nAuthPosts,     \* POST /auth requests issued by the service so far
    nTokenWrites,   \* assignments to _token so far
    explicitAuth,   \* authenticate() was called by a caller of the service
    everToken,      \* an answer of POST /auth has carried a non-empty token
    booking,        \* the Booking under serialization (data model runs)
    data,           \* the latest to_dict() result (data model runs)
    args,           \* the arguments of the call under study, or <<>>
    got,            \* what the function under study returned or raised, or None
    remote,         \* the bookings the remote service stores, by id
    session,        \* the booking_service fixture: "none", "open" or "closed"
    nCloses,        \* calls of BaseAPIClient.close()
    sentOnClosed,   \* a request was issued after close()
    nScenarios,     \* scenarios finished in this test run
    test,           \* the scenario running, or the latest that ran
    stage,          \* of the scenario: "idle", "setup" (fixture made), "called"
    fixture,        \* what created_booking yielded, or None
    outcome,        \* of the scenario: "none", "passed", "failed", "error"
    teardownError,  \* an exception left the created_booking teardown
    log,            \* the level of the cleanup's log line, or "none"
    owned,          \* ids of the bookings the scenario created remotely
    deleteTried     \* ids the scenario or its cleanup called delete_booking on

svcVars == <<token, sent, result, nCalls, nAuthPosts, nTokenWrites, explicitAuth,
             everToken>>
dataVars == <<booking, data, args, got, remote>>
runVars == <<session, nCloses, sentOnClosed, nScenarios, test, stage, fixture,
             outcome, teardownError, log, owned, deleteTried>>
vars == <<svcVars, dataVars, runVars>>

(***************************************************************************)
(* Python values.  An Optional value is None or Some(v); an empty string   *)
(* and None are the falsy values of Optional[str].                         *)
(***************************************************************************)
None == <<>>
Some(v) == <<v>>
Truthy(o) == o # None /\ o[1] # ""
\* str() as applied by an f-string: None prints as "None"
Str(o) == IF o = None THEN "None" ELSE o[1]
\* dict.get(key): the value, or None when the key is absent
DictGet(obj, key) == IF key \in DOMAIN obj THEN Some(obj[key]) ELSE None
EmptyDict == [k \in {} |-> ""]

(***************************************************************************)
(* Bounds of the model.                                                    *)
(***************************************************************************)
MaxCalls == 3
MaxScenarios == 2
MaxId == 2

(***************************************************************************)
(* config/settings.py                                                      *)
(***************************************************************************)
BASE_URL == "https://restful-booker.herokuapp.com"
REQUEST_TIMEOUT == 30
AUTH_USERNAME == "admin"
AUTH_PASSWORD == "password123"
\* Headers.JSON, the defaults of the session
JSON == ("Content-Type" :> "application/json") @@ ("Accept" :> "application/json")
ENDPOINT == "/booking"
AUTH_ENDPOINT == "/auth"

(***************************************************************************)
(* models/booking.py                                                       *)
(***************************************************************************)
\* an instance of the dataclass; a raw dict of dates has no such mark
BookingDates(checkin, checkout) ==
    [dataclass |-> "BookingDates", checkin |-> checkin, checkout |-> checkout]

Booking(firstname, lastname, totalprice, depositpaid, bookingdates, additionalneeds) ==
    [firstname |-> firstname, lastname |-> lastname, totalprice |-> totalprice,
     depositpaid |-> depositpaid, bookingdates |-> bookingdates,
     additionalneeds |-> additionalneeds]

\* the dict literal of to_dict, before the optional key is added
to_dict_base(self) ==
    [firstname |-> self.firstname,
     lastname |-> self.lastname,
     totalprice |-> self.totalprice,
     depositpaid |-> self.depositpaid,
     bookingdates |-> [checkin |-> self.bookingdates.checkin,
                       checkout |-> self.bookingdates.checkout]]

\* a slip: the key is added when the field is truthy, so "" is dropped
to_dict_truthy(self) ==
    IF Truthy(self.additionalneeds)
    THEN to_dict_base(self) @@ ("additionalneeds" :> self.additionalneeds)
    ELSE to_dict_base(self)

\* Booking.to_dict: additionalneeds is a JSON value, null being None
to_dict(self) ==
    IF self.additionalneeds # None
    THEN to_dict_base(self) @@ ("additionalneeds" :> self.additionalneeds)
    ELSE to_dict_base(self)

(***************************************************************************)
(* The remote service's answers.  A response carries a status and a body,  *)
(* JSON or not; a transport failure carries neither.                       *)
(***************************************************************************)
JsonBody(obj) == [json |-> TRUE, list |-> FALSE, obj |-> obj]
ListBody(items) == [json |-> TRUE, list |-> TRUE, obj |-> items]
TextBody == [json |-> FALSE, list |-> FALSE, obj |-> EmptyDict]
Response(status, body) == [kind |-> "response", status |-> status, body |-> body]
TransportError(kind) == [kind |-> kind, status |-> 0, body |-> TextBody]
NoAnswer == [kind |-> "none", status |-> 0, body |-> TextBody]

TransportErrors == {TransportError("Timeout"), TransportError("ConnectionError")}

AuthAnswers ==
    TransportErrors \cup
    { Response(200, JsonBody([token |-> "abc123"])),
      Response(200, JsonBody([token |-> "def456"])),
      Response(200, JsonBody([token |-> ""])),
      Response(403, JsonBody([reason |-> "Bad credentials"])),
      Response(200, ListBody(<<>>)),
      Response(500, TextBody) }

\* create_valid_booking() with no override
DefaultBooking ==
    Booking("John", "Doe", 150, TRUE, BookingDates("2025-01-01", "2025-01-10"),
            Some("Breakfast"))

SampleBookings ==
    { DefaultBooking,
      Booking("Bob", "Johnson", 0, FALSE, BookingDates("2025-06-15", "2025-06-20"),
              None) }

\* the answers to a request on the booking endpoints
BookingAnswers ==
    TransportErrors \cup
    { Response(200, JsonBody([bookingid |-> 1, booking |-> to_dict(DefaultBooking)])),
      Response(201, TextBody),
      Response(403, TextBody),
      Response(404, TextBody),
      Response(500, TextBody) }

IsResponse(ans) == ans.kind = "response"

(***************************************************************************)
(* services/base_client.py                                                 *)
(***************************************************************************)
_url(endpoint) == BASE_URL \o endpoint

\* the headers of a request: those of the call over the session's defaults
MergedHeaders(headers) == IF headers = None THEN JSON ELSE headers[1] @@ JSON

Exchange(method, url, json, params, headers, ans) ==
    [method |-> method, url |-> url, json |-> json, params |-> params,
     headers |-> MergedHeaders(headers), timeout |-> REQUEST_TIMEOUT, answer |-> ans]

\* a slip: a failed request is sent a second time
session_request_retry(wire, method, url, json, params, headers, ans) ==
    IF IsResponse(ans)
    THEN Append(wire, Exchange(method, url, json, params, headers, ans))
    ELSE Append(Append(wire, Exchange(method, url, json, params, headers, ans)),
                Exchange(method, url, json, params, headers, ans))

\* self.session.<verb>(url, ..., timeout=self.timeout): one request on the wire
session_request(wire, method, url, json, params, headers, ans) ==
    Append(wire, Exchange(method, url, json, params, headers, ans))

\* What a call gives back: the wire so far, and the response or the exception
Returned(wire, ans) == [wire |-> wire, raised |-> FALSE, exc |-> "", response |-> ans]
Raised(wire, exc) == [wire |-> wire, raised |-> TRUE, exc |-> exc, response |-> NoAnswer]

\* a slip: a status of 400 or more is raised as an HTTPError
Outcome_raise_for_status(wire, ans) ==
    IF ~IsResponse(ans) THEN Raised(wire, ans.kind)
    ELSE IF ans.status >= 400 THEN Raised(wire, "HTTPError")
    ELSE Returned(wire, ans)

\* the transport raises on a failure; any response is returned as it is
Outcome(wire, ans) ==
    IF IsResponse(ans) THEN Returned(wire, ans) ELSE Raised(wire, ans.kind)

get(wire, endpoint, params, headers, ans) ==
    Outcome(session_request(wire, "GET", _url(endpoint), None, params, headers, ans), ans)

post(wire, endpoint, json, headers, ans) ==
    Outcome(session_request(wire, "POST", _url(endpoint), json, None, headers, ans), ans)

put(wire, endpoint, json, headers, ans) ==
    Outcome(session_request(wire, "PUT", _url(endpoint), json, None, headers, ans), ans)

patch(wire, endpoint, json, headers, ans) ==
    Outcome(session_request(wire, "PATCH", _url(endpoint), json, None, headers, ans), ans)

delete(wire, endpoint, headers, ans) ==
    Outcome(session_request(wire, "DELETE", _url(endpoint), None, None, headers, ans), ans)

(***************************************************************************)
(* services/booking_service.py                                             *)
(*                                                                         *)
(* A method of the service is an operator from the cached token, the wire  *)
(* so far, its arguments and the answers of the remote service to what the *)
(* method gives back: the token cached on return, the wire, the response   *)
(* or the exception, and for the auth methods the headers or the token.    *)
(***************************************************************************)
SvcReturned(tok, wire, response, headers, ret, writes) ==
    [token |-> tok, wire |-> wire, raised |-> FALSE, exc |-> "",
     response |-> response, headers |-> headers, ret |-> ret, writes |-> writes]

SvcRaised(tok, wire, exc) ==
    [token |-> tok, wire |-> wire, raised |-> TRUE, exc |-> exc,
     response |-> NoAnswer, headers |-> None, ret |-> None, writes |-> 0]

\* a call of the base client made by a method that returns its result as it is
SvcFromBase(tok, r) ==
    IF r.raised THEN SvcRaised(tok, r.wire, r.exc)
    ELSE SvcReturned(tok, r.wire, r.response, None, None, 0)

authenticate(self_token, wire, username, password, ans) ==
    LET payload == [username |-> IF Truthy(username) THEN username[1] ELSE AUTH_USERNAME,
                    password |-> IF Truthy(password) THEN password[1] ELSE AUTH_PASSWORD]
        r == post(wire, AUTH_ENDPOINT, Some(payload), None, ans)
    IN  IF r.raised THEN SvcRaised(self_token, r.wire, r.exc)
        ELSE IF ~r.response.body.json
             THEN SvcRaised(self_token, r.wire, "JSONDecodeError")
        ELSE IF r.response.body.list
             THEN SvcRaised(self_token, r.wire, "AttributeError")
        ELSE LET t == DictGet(r.response.body.obj, "token")
             IN  SvcReturned(t, r.wire, NoAnswer, None, t, 1)

\* a slip: the cache is not consulted, every use authenticates again
auth_headers_always(self_token, wire, authAns) ==
    LET a == authenticate(self_token, wire, None, None, authAns)
    IN  IF a.raised THEN a
        ELSE SvcReturned(a.token, a.wire, NoAnswer,
                         Some([Cookie |-> "token=" \o Str(a.token)]), None, a.writes)

\* a slip: the header is built before the token is fetched
auth_headers_stale(self_token, wire, authAns) ==
    LET a == IF ~Truthy(self_token)
             THEN authenticate(self_token, wire, None, None, authAns)
             ELSE SvcReturned(self_token, wire, NoAnswer, None, None, 0)
    IN  IF a.raised THEN a
        ELSE SvcReturned(a.token, a.wire, NoAnswer,
                         Some([Cookie |-> "token=" \o Str(self_token)]), None, a.writes)

\* a slip: the cache is tested with `is None`, an empty token counts as one
auth_headers_is_none(self_token, wire, authAns) ==
    LET a == IF self_token = None
             THEN authenticate(self_token, wire, None, None, authAns)
             ELSE SvcReturned(self_token, wire, NoAnswer, None, None, 0)
    IN  IF a.raised THEN a
        ELSE SvcReturned(a.token, a.wire, NoAnswer,
                         Some([Cookie |-> "token=" \o Str(a.token)]), None, a.writes)

\* the auth_headers property
auth_headers(self_token, wire, authAns) ==
    LET a == IF ~Truthy(self_token)
             THEN authenticate(self_token, wire, None, None, authAns)
             ELSE SvcReturned(self_token, wire, NoAnswer, None, None, 0)
    IN  IF a.raised THEN a
        ELSE SvcReturned(a.token, a.wire, NoAnswer,
                         Some([Cookie |-> "token=" \o Str(a.token)]), None, a.writes)

\* a slip: a filter is skipped only when it is None, so "" is sent
get_booking_ids_not_none(self_token, wire, firstname, lastname, checkin, checkout, ans) ==
    LET given == [firstname |-> firstname, lastname |-> lastname,
                  checkin |-> checkin, checkout |-> checkout]
        params == [k \in {f \in DOMAIN given : given[f] # None} |-> given[k][1]]
    IN  SvcFromBase(self_token, get(wire, ENDPOINT, Some(params), None, ans))

get_booking_ids(self_token, wire, firstname, lastname, checkin, checkout, ans) ==
    LET given == [firstname |-> firstname, lastname |-> lastname,
                  checkin |-> checkin, checkout |-> checkout]
        params == [k \in {f \in DOMAIN given : Truthy(given[f])} |-> given[k][1]]
    IN  SvcFromBase(self_token, get(wire, ENDPOINT, Some(params), None, ans))

\* a slip: the read is sent with the cached token as a credential
get_booking_with_cookie(self_token, wire, booking_id, ans) ==
    SvcFromBase(self_token,
                get(wire, ENDPOINT \o "/" \o ToString(booking_id), None,
                    Some([Cookie |-> "token=" \o Str(self_token)]), ans))

\* a slip: the id is left out of the path, the collection is fetched
get_booking_collection(self_token, wire, booking_id, ans) ==
    SvcFromBase(self_token, get(wire, ENDPOINT, None, None, ans))

get_booking(self_token, wire, booking_id, ans) ==
    SvcFromBase(self_token,
                get(wire, ENDPOINT \o "/" \o ToString(booking_id), None, None, ans))

create_booking(self_token, wire, b, ans) ==
    SvcFromBase(self_token, post(wire, ENDPOINT, Some(to_dict(b)), None, ans))

\* an authorized call: the arguments, auth_headers among them, are evaluated
\* before the verb is called
Authorized(h, r) ==
    IF r.raised THEN [SvcRaised(h.token, r.wire, r.exc) EXCEPT !.writes = h.writes]
    ELSE SvcReturned(h.token, r.wire, r.response, None, None, h.writes)

\* a slip: the full update is sent with PATCH
update_booking_patch(self_token, wire, booking_id, b, authAns, ans) ==
    LET h == auth_headers(self_token, wire, authAns)
    IN  IF h.raised THEN h
        ELSE Authorized(h, patch(h.wire, ENDPOINT \o "/" \o ToString(booking_id),
                                 Some(to_dict(b)), h.headers, ans))

update_booking(self_token, wire, booking_id, b, authAns, ans) ==
    LET h == auth_headers(self_token, wire, authAns)
    IN  IF h.raised THEN h
        ELSE Authorized(h, put(h.wire, ENDPOINT \o "/" \o ToString(booking_id),
                               Some(to_dict(b)), h.headers, ans))

partial_update_booking(self_token, wire, booking_id, fields, authAns, ans) ==
    LET h == auth_headers(self_token, wire, authAns)
    IN  IF h.raised THEN h
        ELSE Authorized(h, patch(h.wire, ENDPOINT \o "/" \o ToString(booking_id),
                                 Some(fields), h.headers, ans))

\* a slip: the DELETE is sent without the credential header
delete_booking_no_auth(self_token, wire, booking_id, authAns, ans) ==
    SvcFromBase(self_token,
                delete(wire, ENDPOINT \o "/" \o ToString(booking_id), None, ans))

delete_booking(self_token, wire, booking_id, authAns, ans) ==
    LET h == auth_headers(self_token, wire, authAns)
    IN  IF h.raised THEN h
        ELSE Authorized(h, delete(h.wire, ENDPOINT \o "/" \o ToString(booking_id),
                                  h.headers, ans))

(***************************************************************************)
(* utils/validators.py: a helper gives "ok" or the exception it raises     *)
(***************************************************************************)
assert_status_code(response, expected) ==
    IF response.status = expected THEN "ok" ELSE "AssertionError"

\* the keys of a booking-shaped dict, in the order items() yields them
FieldOrder ==
    <<"firstname", "lastname", "totalprice", "depositpaid", "bookingdates",
      "additionalneeds", "checkin", "checkout">>
Member(d, k) == k \in DOMAIN d
\* the keys of dict d among `order`, in that order
RECURSIVE Items(_, _)
Items(d, order) ==
    IF order = <<>> THEN <<>>
    ELSE IF Member(d, Head(order)) THEN <<Head(order)>> \o Items(d, Tail(order))
    ELSE Items(d, Tail(order))

RECURSIVE assert_booking_dates(_, _, _)
assert_booking_dates(booking_data, value, keys) ==
    IF keys = <<>> THEN "ok"
    ELSE IF ~Member(booking_data, "bookingdates") THEN "KeyError"
    ELSE IF ~Member(booking_data.bookingdates, Head(keys)) THEN "KeyError"
    ELSE IF booking_data.bookingdates[Head(keys)] # value[Head(keys)]
         THEN "AssertionError"
    ELSE assert_booking_dates(booking_data, value, Tail(keys))

RECURSIVE assert_booking_keys(_, _, _)
assert_booking_keys(booking_data, expected, keys) ==
    IF keys = <<>> THEN "ok"
    ELSE LET key == Head(keys)
             one == IF key = "bookingdates"
                    THEN assert_booking_dates(booking_data, expected[key],
                                              Items(expected[key], FieldOrder))
                    ELSE IF ~Member(booking_data, key) THEN "KeyError"
                    ELSE IF booking_data[key] # expected[key] THEN "AssertionError"
                    ELSE "ok"
         IN  IF one # "ok" THEN one
             ELSE assert_booking_keys(booking_data, expected, Tail(keys))

assert_booking_fields(booking_data, expected) ==
    assert_booking_keys(booking_data, expected, Items(expected, FieldOrder))

(***************************************************************************)
(* utils/test_data.py                                                      *)
(***************************************************************************)
\* isinstance(x, dict), of a date range
IsDict(x) == "dataclass" \notin DOMAIN x

\* a slip: the raw dict of dates is stored as it came
create_valid_booking_raw(overrides) ==
    LET defaults == overrides @@ DefaultBooking
    IN  Booking(defaults.firstname, defaults.lastname, defaults.totalprice,
                defaults.depositpaid, defaults.bookingdates,
                defaults.additionalneeds)

create_valid_booking(overrides) ==
    LET defaults == overrides @@ DefaultBooking
        bookingdates ==
            IF IsDict(defaults.bookingdates)
            THEN BookingDates(defaults.bookingdates.checkin,
                              defaults.bookingdates.checkout)
            ELSE defaults.bookingdates
    IN  Booking(defaults.firstname, defaults.lastname, defaults.totalprice,
                defaults.depositpaid, bookingdates, defaults.additionalneeds)

create_booking_payload(overrides) == to_dict(create_valid_booking(overrides))

(***************************************************************************)
(* A caller of one BookingService instance: any sequence of calls of its   *)
(* methods, each answered by the remote service.                           *)
(***************************************************************************)
NoResult ==
    [op |-> "none", raised |-> FALSE, exc |-> "", response |-> NoAnswer,
     headers |-> None, ret |-> None]

IsAuthPost(e) == e.method = "POST" /\ e.url = _url(AUTH_ENDPOINT)

RECURSIVE CountAuthPosts(_)
CountAuthPosts(wire) ==
    IF wire = <<>> THEN 0
    ELSE (IF IsAuthPost(Head(wire)) THEN 1 ELSE 0) + CountAuthPosts(Tail(wire))

\* the answers to an authentication that happens only while no token is cached
LazyAuthAnswers(tok) == IF Truthy(tok) THEN {NoAnswer} ELSE AuthAnswers
\* the answers to the request that follows the credential lookup h
AfterAuth(h, answers) == IF h.raised THEN {NoAnswer} ELSE answers

\* the service after a call that gave r
Called(op, r) ==
    /\ nCalls < MaxCalls
    /\ nCalls' = nCalls + 1
    /\ token' = r.token
    /\ sent' = r.wire
    /\ result' = [op |-> op, raised |-> r.raised, exc |-> r.exc,
                  response |-> r.response, headers |-> r.headers, ret |-> r.ret]
    /\ nAuthPosts' = nAuthPosts + CountAuthPosts(r.wire)
    /\ nTokenWrites' = nTokenWrites + r.writes
    /\ explicitAuth' = (explicitAuth \/ op = "authenticate")
    /\ everToken' = (everToken \/ Truthy(r.token))
    /\ UNCHANGED <<dataVars, runVars>>

Credentials ==
    { <<None, None>>, <<Some(""), Some("secret")>>, <<Some("tester"), None>>,
      <<Some("tester"), Some("secret")>> }
Filters ==
    { <<None, None, None, None>>,
      <<Some("John"), None, None, None>>,
      <<Some(""), Some("Doe"), None, None>>,
      <<None, None, Some("2025-01-01"), Some("2025-01-10")>>,
      <<Some("John"), Some("Doe"), Some("2025-01-01"), Some("")>> }
PatchData == {[firstname |-> "Patched", totalprice |-> 777], [lastname |-> "Only"]}
CallIds == {1, 999999999}
RawVerbs == {"GET", "POST", "PUT", "PATCH", "DELETE"}

Authenticate ==
    \E c \in Credentials, ans \in AuthAnswers :
        Called("authenticate", authenticate(token, <<>>, c[1], c[2], ans))

AuthHeaders ==
    \E authAns \in LazyAuthAnswers(token) :
        Called("auth_headers", auth_headers(token, <<>>, authAns))

GetBookingIds ==
    \E f \in Filters, ans \in BookingAnswers :
        Called("get_booking_ids",
               get_booking_ids(token, <<>>, f[1], f[2], f[3], f[4], ans))

GetBooking ==
    \E id \in CallIds, ans \in BookingAnswers :
        Called("get_booking", get_booking(token, <<>>, id, ans))

CreateBooking ==
    \E b \in SampleBookings, ans \in BookingAnswers :
        Called("create_booking", create_booking(token, <<>>, b, ans))

UpdateBooking ==
    \E id \in CallIds, b \in SampleBookings, authAns \in LazyAuthAnswers(token) :
        \E ans \in AfterAuth(auth_headers(token, <<>>, authAns), BookingAnswers) :
            Called("update_booking", update_booking(token, <<>>, id, b, authAns, ans))

PartialUpdateBooking ==
    \E id \in CallIds, fields \in PatchData, authAns \in LazyAuthAnswers(token) :
        \E ans \in AfterAuth(auth_headers(token, <<>>, authAns), BookingAnswers) :
            Called("partial_update_booking",
                   partial_update_booking(token, <<>>, id, fields, authAns, ans))

DeleteBooking ==
    \E id \in CallIds, authAns \in LazyAuthAnswers(token) :
        \E ans \in AfterAuth(auth_headers(token, <<>>, authAns), BookingAnswers) :
            Called("delete_booking", delete_booking(token, <<>>, id, authAns, ans))

\* a verb of the base client called directly, as the health check does
RawCall(verb, ans) ==
    CASE verb = "GET" -> get(<<>>, "/ping", None, None, ans)
      [] verb = "POST" -> post(<<>>, "/ping", None, None, ans)
      [] verb = "PUT" -> put(<<>>, "/ping", None, None, ans)
      [] verb = "PATCH" -> patch(<<>>, "/ping", None, None, ans)
      [] verb = "DELETE" -> delete(<<>>, "/ping", None, ans)

BaseRequest ==
    \E verb \in RawVerbs, ans \in BookingAnswers :
        Called(verb, SvcFromBase(token, RawCall(verb, ans)))

RunInit ==
    /\ session = "none"
    /\ nCloses = 0
    /\ sentOnClosed = FALSE
    /\ nScenarios = 0
    /\ test = "none"
    /\ stage = "idle"
    /\ fixture = None
    /\ outcome = "none"
    /\ teardownError = FALSE
    /\ log = "none"
    /\ owned = {}
    /\ deleteTried = {}

SvcInit ==
    /\ token = None
    /\ sent = <<>>
    /\ result = NoResult
    /\ nCalls = 0
    /\ nAuthPosts = 0
    /\ nTokenWrites = 0
    /\ explicitAuth = FALSE
    /\ everToken = FALSE

\* a remote service that stores nothing and has assigned no id
NoBookings == [bookings |-> EmptyDict, issued |-> 0]

\* no function under study, and a remote service that stores nothing
StudyInit ==
    /\ args = <<>>
    /\ got = None
    /\ remote = NoBookings

Init ==
    /\ SvcInit
    /\ booking = DefaultBooking
    /\ data = EmptyDict
    /\ StudyInit
    /\ RunInit

Next ==
    \/ Authenticate
    \/ AuthHeaders
    \/ GetBookingIds
    \/ GetBooking
    \/ CreateBooking
    \/ UpdateBooking
    \/ PartialUpdateBooking
    \/ DeleteBooking
    \/ BaseRequest

Spec == Init /\ [][Next]_vars

(***************************************************************************)
(* Properties of the service under any caller.                             *)
(***************************************************************************)
AuthorizedOps == {"update_booking", "partial_update_booking", "delete_booking"}
OpenOps == {"create_booking", "get_booking", "get_booking_ids"}
CrudOps == AuthorizedOps \cup OpenOps
CookieOf(tok) == [Cookie |-> "token=" \o Str(tok)]
\* the exchanges of the latest operation that are not its authentication
OwnExchanges == {i \in 1..Len(sent) : ~IsAuthPost(sent[i])}

\* C1, as stated: in a sequence of calls with no explicit authenticate(), at
\* most one POST /auth is issued and the token is written at most once,
\* whatever the auth endpoint answers.
C1_AtMostOneAuthPost ==
    ~explicitAuth => (nAuthPosts <= 1 /\ nTokenWrites <= 1)

\* C1, amended: once a non-empty token is cached, no call other than an
\* explicit authenticate() writes the token or issues a POST /auth; while no
\* non-empty token is cached, each update_booking, partial_update_booking,
\* delete_booking and auth_headers call issues exactly one POST /auth and
\* writes the token at most once.
C1_CachedTokenOnlyRead ==
    [][ (nCalls' # nCalls /\ result'.op # "authenticate") =>
            /\ Truthy(token) =>
                   /\ token' = token
                   /\ nAuthPosts' = nAuthPosts
                   /\ nTokenWrites' = nTokenWrites
            /\ (~Truthy(token) /\ result'.op \in AuthorizedOps \cup {"auth_headers"}) =>
                   nAuthPosts' = nAuthPosts + 1
            /\ nAuthPosts' <= nAuthPosts + 1
            /\ nTokenWrites' <= nTokenWrites + 1 ]_vars

C1_Witness ==
    /\ ~explicitAuth
    /\ Truthy(token)
    /\ nCalls = MaxCalls
    /\ nAuthPosts = 1
    /\ nTokenWrites = 1
    /\ result.op \in AuthorizedOps \cup {"auth_headers"}
    /\ \A i \in 1..Len(sent) : ~IsAuthPost(sent[i])

\* C2: auth_headers returns {"Cookie": "token=" + the token cached when it
\* returns}; with no token cached it first authenticates with one POST /auth,
\* with a token cached it issues no request and leaves the token as it is.
C2_AuthHeaders ==
    /\ [](result.op = "auth_headers" /\ ~result.raised =>
              result.headers = Some(CookieOf(token)))
    /\ [][ (nCalls' # nCalls /\ result'.op = "auth_headers") =>
               IF Truthy(token)
               THEN sent' = <<>> /\ token' = token /\ ~result'.raised
               ELSE Len(sent') = 1 /\ IsAuthPost(sent'[1]) ]_vars

C2_Witness ==
    /\ result.op = "auth_headers"
    /\ ~result.raised
    /\ Len(sent) = 1
    /\ IsAuthPost(sent[1])
    /\ result.headers = Some([Cookie |-> "token=abc123"])

\* C3: every PUT, PATCH and DELETE sent by update_booking,
\* partial_update_booking and delete_booking carries the cookie credential,
\* and an authentication the call triggers is sent and answered before it.
C3_AuthorizedRequests ==
    result.op \in AuthorizedOps =>
        \A i \in OwnExchanges :
            /\ i = Len(sent)
            /\ sent[i].method \in {"PUT", "PATCH", "DELETE"}
            /\ "Cookie" \in DOMAIN sent[i].headers
            /\ sent[i].headers["Cookie"] = "token=" \o Str(token)
            /\ \A j \in 1..Len(sent) :
                   IsAuthPost(sent[j]) => j < i /\ IsResponse(sent[j].answer)

C3_Witness ==
    /\ result.op = "delete_booking"
    /\ Len(sent) = 2
    /\ IsAuthPost(sent[1])
    /\ sent[2].method = "DELETE"
    /\ sent[2].headers["Cookie"] = "token=def456"

\* C4: create_booking, get_booking and get_booking_ids send exactly one
\* request, without a credential header, never authenticate and leave the
\* cached token as it is, whether a token is cached or not.
C4_OpenOperations ==
    [][ (nCalls' # nCalls /\ result'.op \in OpenOps) =>
            /\ Len(sent') = 1
            /\ ~IsAuthPost(sent'[1])
            /\ "Cookie" \notin DOMAIN sent'[1].headers
            /\ token' = token
            /\ nAuthPosts' = nAuthPosts
            /\ nTokenWrites' = nTokenWrites ]_vars

C4_Witness ==
    /\ result.op = "create_booking"
    /\ token = None
    /\ nCalls > 1
    /\ Len(sent) = 1
    /\ IsResponse(sent[1].answer)

\* C5: whatever status the remote service answers a request with, the verb
\* of the base client and the CRUD operation that sent it return that
\* response unchanged and raise nothing.
C5_StatusIsNoError ==
    result.op \in CrudOps \cup RawVerbs =>
        \A i \in OwnExchanges :
            IsResponse(sent[i].answer) =>
                /\ ~result.raised
                /\ result.response = sent[i].answer

C5_Witness ==
    /\ result.op = "update_booking"
    /\ ~result.raised
    /\ result.response.status = 500
    /\ Len(sent) = 2
    /\ sent[1].answer.status = 403

\* C6: a transport failure is raised to the caller and the request is not
\* sent again; when it happens in the lazy authentication of an authorized
\* operation, the PUT, PATCH or DELETE is never sent and no token is cached.
C6_TransportErrorPropagates ==
    \A i \in 1..Len(sent) :
        ~IsResponse(sent[i].answer) =>
            /\ i = Len(sent)
            /\ result.raised
            /\ result.exc = sent[i].answer.kind
            /\ \A j \in 1..Len(sent) : j # i => IsResponse(sent[j].answer)
            /\ (result.op \in AuthorizedOps /\ IsAuthPost(sent[i])) =>
                   (Len(sent) = 1 /\ ~Truthy(token))

C6_Witness ==
    /\ result.op = "partial_update_booking"
    /\ result.raised
    /\ result.exc = "Timeout"
    /\ Len(sent) = 1
    /\ IsAuthPost(sent[1])
    /\ nCalls > 1

(***************************************************************************)
(* The data model alone: a Booking is constructed and serialized.          *)
(***************************************************************************)
Names == {"", "Alice"}
Prices == {0, 200}
Dates == {"2025-03-01", "2025-03-05"}
Needs == {None, Some(""), Some("Lunch")}

Bookings ==
    { Booking(f, l, p, d, BookingDates(ci, co), n) :
          f \in Names, l \in {"", "Smith"}, p \in Prices, d \in BOOLEAN,
          ci \in Dates, co \in Dates, n \in Needs }

DataInit ==
    /\ SvcInit
    /\ RunInit
    /\ booking \in Bookings
    /\ data = EmptyDict
    /\ StudyInit

ToDict ==
    /\ data' = to_dict(booking)
    /\ UNCHANGED <<booking, args, got, remote, svcVars, runVars>>

DataNext == ToDict

SpecData == DataInit /\ [][DataNext]_vars

BookingKeys ==
    {"firstname", "lastname", "totalprice", "depositpaid", "bookingdates"}

\* C10: to_dict() holds the key additionalneeds exactly when the field is
\* set, with the field's value and never null; the five other fields are
\* always there with the Booking's values, an empty text included.
C10_ToDict ==
    data # EmptyDict =>
        /\ DOMAIN data \in {BookingKeys, BookingKeys \cup {"additionalneeds"}}
        /\ ("additionalneeds" \in DOMAIN data) <=> (booking.additionalneeds # None)
        /\ "additionalneeds" \in DOMAIN data =>
               /\ data.additionalneeds # None
               /\ data.additionalneeds = booking.additionalneeds
        /\ data.firstname = booking.firstname
        /\ data.lastname = booking.lastname
        /\ data.totalprice = booking.totalprice
        /\ data.depositpaid = booking.depositpaid
        /\ DOMAIN data.bookingdates = {"checkin", "checkout"}
        /\ data.bookingdates.checkin = booking.bookingdates.checkin
        /\ data.bookingdates.checkout = booking.bookingdates.checkout

C10_Witness ==
    /\ data # EmptyDict
    /\ booking.additionalneeds = Some("")
    /\ booking.firstname = ""
    /\ "additionalneeds" \in DOMAIN data
    /\ data.firstname = ""

(***************************************************************************)
(* The answers of the remote service during a test run.                    *)
(***************************************************************************)
Timeout == TransportError("Timeout")
RunIds == 1..MaxId
UpdatedBooking ==
    Booking("Updated", "User", 999, FALSE, BookingDates("2026-06-01", "2026-06-15"),
            Some("Airport shuttle"))
PatchedFields == [firstname |-> "Patched", totalprice |-> 777]

RunAuthAnswers ==
    { Timeout,
      Response(200, JsonBody([token |-> "abc123"])),
      Response(200, JsonBody([reason |-> "Bad credentials"])),
      Response(500, TextBody) }
\* POST /booking: the booking is created under an id of the remote's choice
\* and echoed, or echoed wrongly, or the request fails
CreateAnswers(b) ==
    { Response(200, JsonBody([bookingid |-> i, booking |-> to_dict(b)])) : i \in RunIds }
    \cup { Timeout,
           Response(200, JsonBody([bookingid |-> 1, booking |-> to_dict(UpdatedBooking)])),
           Response(500, TextBody) }
GetAnswers ==
    { Timeout, Response(200, JsonBody(to_dict(DefaultBooking))), Response(404, TextBody) }
ListAnswers ==
    { Timeout, Response(200, ListBody(<<[bookingid |-> 1]>>)), Response(200, ListBody(<<>>)) }
UpdateAnswers(body) ==
    { Timeout, Response(200, JsonBody(body)),
      Response(200, JsonBody(to_dict(DefaultBooking))), Response(403, TextBody) }
DeleteAnswers == { Timeout, Response(201, TextBody), Response(403, TextBody) }
PingAnswers == { Timeout, Response(201, TextBody), Response(500, TextBody) }

(***************************************************************************)
(* regression_suite/test_booking_api.py: a test is an operator from the    *)
(* cached token, its fixtures and parameters and the remote's answers to   *)
(* what it did: the token and the wire afterwards, its last call, whether  *)
(* it passed, the ids it created remotely and those it called delete on.   *)
(***************************************************************************)
TestRun(r, passed, created, tried) ==
    [token |-> r.token, wire |-> r.wire, last |-> r, passed |-> passed,
     owned |-> created, tried |-> tried]

\* response.json() gives a dict
JsonDict(r) == ~r.raised /\ r.response.body.json /\ ~r.response.body.list
Obj(r) == r.response.body.obj
StatusIs(r, expected) == ~r.raised /\ assert_status_code(r.response, expected) = "ok"
\* the booking the remote created in answer to a POST /booking
CreatedIds(r) ==
    IF JsonDict(r) /\ r.response.status = 200 /\ Member(Obj(r), "bookingid")
    THEN {Obj(r).bookingid} ELSE {}

test_create_booking_returns_201_or_200(tok, sample_booking, ans) ==
    LET r == create_booking(tok, <<>>, sample_booking, ans)
    IN  TestRun(r,
                /\ StatusIs(r, 200)
                /\ JsonDict(r)
                /\ Member(Obj(r), "bookingid")
                /\ Member(Obj(r), "booking")
                /\ assert_booking_fields(Obj(r).booking, to_dict(sample_booking)) = "ok",
                CreatedIds(r), {})

test_create_booking_with_various_data(tok, p, ans) ==
    LET b == create_valid_booking(p)
        r == create_booking(tok, <<>>, b, ans)
    IN  TestRun(r,
                /\ StatusIs(r, 200)
                /\ JsonDict(r)
                /\ Member(Obj(r), "bookingid")
                /\ Member(Obj(r), "booking")
                /\ Obj(r).booking.firstname = p.firstname
                /\ Obj(r).booking.lastname = p.lastname
                /\ Obj(r).booking.totalprice = p.totalprice
                /\ Obj(r).booking.depositpaid = p.depositpaid,
                CreatedIds(r), {})

test_get_existing_booking(tok, created_booking, ans, attrsOk) ==
    LET r == get_booking(tok, <<>>, created_booking.id, ans)
    IN  TestRun(r,
                /\ StatusIs(r, 200)
                /\ attrsOk
                /\ JsonDict(r)
                /\ Member(Obj(r), "firstname")
                /\ Obj(r).firstname = created_booking.data.firstname
                /\ Member(Obj(r), "lastname")
                /\ Obj(r).lastname = created_booking.data.lastname,
                {}, {})

test_get_nonexistent_booking_returns_404(tok, ans) ==
    LET r == get_booking(tok, <<>>, 999999999, ans)
    IN  TestRun(r, StatusIs(r, 404), {}, {})

test_get_all_booking_ids(tok, ans) ==
    LET r == get_booking_ids(tok, <<>>, None, None, None, None, ans)
    IN  TestRun(r,
                /\ StatusIs(r, 200)
                /\ r.response.body.json
                /\ r.response.body.list
                /\ Len(Obj(r)) > 0
                /\ \A i \in 1..Len(Obj(r)) : Member(Obj(r)[i], "bookingid"),
                {}, {})

test_get_bookings_filtered_by_name(tok, created_booking, filter_field, filter_value, ans) ==
    LET r == get_booking_ids(tok, <<>>,
                             IF filter_field = "firstname" THEN Some(filter_value) ELSE None,
                             IF filter_field = "lastname" THEN Some(filter_value) ELSE None,
                             None, None, ans)
    IN  TestRun(r,
                StatusIs(r, 200) /\ r.response.body.json /\ r.response.body.list,
                {}, {})

test_update_booking_full(tok, created_booking, authAns, ans) ==
    LET updated == create_valid_booking(UpdatedBooking)
        r == update_booking(tok, <<>>, created_booking.id, updated, authAns, ans)
    IN  TestRun(r,
                /\ StatusIs(r, 200)
                /\ JsonDict(r)
                /\ Member(Obj(r), "firstname") /\ Obj(r).firstname = "Updated"
                /\ Member(Obj(r), "lastname") /\ Obj(r).lastname = "User"
                /\ Member(Obj(r), "totalprice") /\ Obj(r).totalprice = 999
                /\ Member(Obj(r), "depositpaid") /\ Obj(r).depositpaid = FALSE,
                {}, {})

test_partial_update_booking(tok, created_booking, authAns, ans) ==
    LET r == partial_update_booking(tok, <<>>, created_booking.id, PatchedFields,
                                    authAns, ans)
    IN  TestRun(r,
                /\ StatusIs(r, 200)
                /\ JsonDict(r)
                /\ Member(Obj(r), "firstname") /\ Obj(r).firstname = "Patched"
                /\ Member(Obj(r), "totalprice") /\ Obj(r).totalprice = 777
                /\ Member(Obj(r), "lastname")
                /\ Obj(r).lastname = created_booking.data.lastname,
                {}, {})

test_delete_booking(tok, createAns, authAns, deleteAns, getAns) ==
    LET b == create_valid_booking([firstname |-> "ToDelete", lastname |-> "ThisOne"])
        c == create_booking(tok, <<>>, b, createAns)
    IN  IF ~(JsonDict(c) /\ Member(Obj(c), "bookingid"))
        THEN TestRun(c, FALSE, CreatedIds(c), {})
        ELSE LET booking_id == Obj(c).bookingid
                 d == delete_booking(c.token, c.wire, booking_id, authAns, deleteAns)
             IN  IF ~StatusIs(d, 201)
                 THEN TestRun(d, FALSE, CreatedIds(c), {booking_id})
                 ELSE LET g == get_booking(d.token, d.wire, booking_id, getAns)
                      IN  TestRun(g, StatusIs(g, 404), CreatedIds(c), {booking_id})

test_booking_response_field_types(tok, created_booking, field, ans) ==
    LET r == get_booking(tok, <<>>, created_booking.id, ans)
    IN  TestRun(r, StatusIs(r, 200) /\ JsonDict(r) /\ Member(Obj(r), field), {}, {})

test_api_health_check(tok, ans, attrsOk) ==
    LET r == SvcFromBase(tok, get(<<>>, "/ping", None, None, ans))
    IN  TestRun(r, StatusIs(r, 201) /\ attrsOk, {}, {})

test_auth_with_valid_credentials(tok, ans) ==
    LET r == SvcFromBase(tok, post(<<>>, "/auth",
                                   Some([username |-> "admin", password |-> "password123"]),
                                   None, ans))
    IN  TestRun(r,
                /\ StatusIs(r, 200)
                /\ JsonDict(r)
                /\ Member(Obj(r), "token")
                /\ Len(Obj(r).token) > 0,
                {}, {})

(***************************************************************************)
(* regression_suite/conftest.py                                            *)
(***************************************************************************)
sample_booking == create_valid_booking(EmptyDict)

\* created_booking up to its yield: the value yielded, or None when the
\* fixture raised before it
created_booking_setup(tok, sample, ans) ==
    LET r == create_booking(tok, <<>>, sample, ans)
        yielded == JsonDict(r) /\ Member(Obj(r), "bookingid") /\ Member(Obj(r), "booking")
    IN  [token |-> r.token, wire |-> r.wire, last |-> r, owned |-> CreatedIds(r),
         value |-> IF yielded
                   THEN Some([id |-> Obj(r).bookingid, data |-> Obj(r).booking])
                   ELSE None]

\* a slip: the cleanup without its try/except
created_booking_teardown_uncaught(tok, booking_id, authAns, ans) ==
    LET r == delete_booking(tok, <<>>, booking_id, authAns, ans)
    IN  [token |-> r.token, wire |-> r.wire, last |-> r,
         log |-> IF r.raised THEN "none" ELSE "info", error |-> r.raised]

\* created_booking after its yield: the best-effort delete
created_booking_teardown(tok, booking_id, authAns, ans) ==
    LET r == delete_booking(tok, <<>>, booking_id, authAns, ans)
    IN  [token |-> r.token, wire |-> r.wire, last |-> r,
         log |-> IF r.raised THEN "warning" ELSE "info", error |-> FALSE]

\* a slip: the service is closed while a test's fixtures are not torn down
booking_service_finalizer_early(st) == st \in {"idle", "called"}

\* booking_service is session-scoped: its code after the yield runs when no
\* scenario is in progress, the function-scoped fixtures being torn down
booking_service_finalizer(st) == st = "idle"

(***************************************************************************)
(* A test run: pytest sets the session-scoped service up before the first  *)
(* scenario, runs the scenarios one at a time (fixture setup, the test,    *)
(* fixture teardown) and finalizes the service after the last one.         *)
(***************************************************************************)
CallerResult(op, r) ==
    [op |-> op, raised |-> r.raised, exc |-> r.exc, response |-> r.response,
     headers |-> r.headers, ret |-> r.ret]

\* what a fixture or a test did on the service
Handled(op, h) ==
    /\ token' = h.token
    /\ sent' = h.wire
    /\ result' = CallerResult(op, h.last)
    /\ sentOnClosed' = (sentOnClosed \/ (session # "open" /\ h.wire # <<>>))
    /\ UNCHANGED <<nCalls, nAuthPosts, nTokenWrites, explicitAuth, everToken,
                   dataVars, session, nCloses>>

Verdict(passed) == IF passed THEN "passed" ELSE "failed"

CanStart == stage = "idle" /\ session = "open" /\ nScenarios < MaxScenarios

\* a scenario with no created_booking fixture: the test is all of it
Plain(name, t) ==
    /\ CanStart
    /\ Handled(name, t)
    /\ test' = name
    /\ stage' = "idle"
    /\ nScenarios' = nScenarios + 1
    /\ fixture' = None
    /\ outcome' = Verdict(t.passed)
    /\ owned' = t.owned
    /\ deleteTried' = t.tried
    /\ log' = "none"
    /\ teardownError' = FALSE

\* the test of a scenario whose created_booking fixture is set up
WithFixture(name, t) ==
    /\ stage = "setup"
    /\ test = name
    /\ Handled(name, t)
    /\ stage' = "called"
    /\ outcome' = Verdict(t.passed)
    /\ owned' = owned \cup t.owned
    /\ deleteTried' = deleteTried \cup t.tried
    /\ UNCHANGED <<test, nScenarios, fixture, log, teardownError>>

FixtureTests ==
    {"test_get_existing_booking", "test_get_bookings_filtered_by_name",
     "test_update_booking_full", "test_partial_update_booking",
     "test_booking_response_field_types"}
ParamBookings ==
    { Booking("Alice", "Smith", 200, TRUE, BookingDates("2025-03-01", "2025-03-05"),
              Some("Lunch")),
      Booking("Bob", "Johnson", 0, FALSE, BookingDates("2025-06-15", "2025-06-20"),
              None) }
NameFilters == {<<"firstname", "John">>, <<"lastname", "Doe">>}
TypedFields == {"firstname", "bookingdates"}

ServiceSetup ==
    /\ session = "none"
    /\ session' = "open"
    /\ token' = None
    /\ UNCHANGED <<sent, result, nCalls, nAuthPosts, nTokenWrites, explicitAuth,
                   everToken, dataVars, nCloses, sentOnClosed, nScenarios, test, stage, fixture,
                   outcome, teardownError, log, owned, deleteTried>>

ServiceTeardown ==
    /\ session = "open"
    /\ booking_service_finalizer(stage)
    /\ session' = "closed"
    /\ nCloses' = nCloses + 1
    /\ UNCHANGED <<svcVars, dataVars, sentOnClosed, nScenarios, test, stage, fixture,
                   outcome, teardownError, log, owned, deleteTried>>

CreatedBookingSetup ==
    /\ CanStart
    /\ \E name \in FixtureTests, ans \in CreateAnswers(sample_booking) :
           LET f == created_booking_setup(token, sample_booking, ans)
           IN  /\ Handled("created_booking", f)
               /\ test' = name
               /\ fixture' = f.value
               /\ owned' = f.owned
               /\ deleteTried' = {}
               /\ log' = "none"
               /\ teardownError' = FALSE
               /\ IF f.value # None
                  THEN stage' = "setup" /\ outcome' = "none"
                       /\ nScenarios' = nScenarios
                  ELSE stage' = "idle" /\ outcome' = "error"
                       /\ nScenarios' = nScenarios + 1

CreatedBookingTeardown ==
    /\ stage = "called"
    /\ \E authAns \in IF Truthy(token) THEN {NoAnswer} ELSE RunAuthAnswers :
       \E ans \in AfterAuth(auth_headers(token, <<>>, authAns), DeleteAnswers) :
           LET f == created_booking_teardown(token, fixture[1].id, authAns, ans)
           IN  /\ Handled("created_booking", f)
               /\ log' = f.log
               /\ teardownError' = f.error
               /\ deleteTried' = deleteTried \cup {fixture[1].id}
               /\ stage' = "idle"
               /\ nScenarios' = nScenarios + 1
               /\ UNCHANGED <<test, fixture, outcome, owned>>

TestCreateBooking ==
    \E ans \in CreateAnswers(sample_booking) :
        Plain("test_create_booking_returns_201_or_200",
              test_create_booking_returns_201_or_200(token, sample_booking, ans))

TestCreateVarious ==
    \E p \in ParamBookings : \E ans \in CreateAnswers(p) :
        Plain("test_create_booking_with_various_data",
              test_create_booking_with_various_data(token, p, ans))

TestGetExisting ==
    \E ans \in GetAnswers, attrsOk \in BOOLEAN :
        WithFixture("test_get_existing_booking",
                    test_get_existing_booking(token, fixture[1], ans, attrsOk))

TestGetNonexistent ==
    \E ans \in GetAnswers :
        Plain("test_get_nonexistent_booking_returns_404",
              test_get_nonexistent_booking_returns_404(token, ans))

TestGetAllIds ==
    \E ans \in ListAnswers :
        Plain("test_get_all_booking_ids", test_get_all_booking_ids(token, ans))

TestGetFiltered ==
    \E f \in NameFilters, ans \in ListAnswers :
        WithFixture("test_get_bookings_filtered_by_name",
                    test_get_bookings_filtered_by_name(token, fixture[1], f[1], f[2], ans))

TestUpdateFull ==
    \E authAns \in IF Truthy(token) THEN {NoAnswer} ELSE RunAuthAnswers :
    \E ans \in AfterAuth(auth_headers(token, <<>>, authAns),
                         UpdateAnswers(to_dict(UpdatedBooking))) :
        WithFixture("test_update_booking_full",
                    test_update_booking_full(token, fixture[1], authAns, ans))

TestPartialUpdate ==
    \E authAns \in IF Truthy(token) THEN {NoAnswer} ELSE RunAuthAnswers :
    \E ans \in AfterAuth(auth_headers(token, <<>>, authAns),
                         UpdateAnswers(PatchedFields @@ to_dict(DefaultBooking))) :
        WithFixture("test_partial_update_booking",
                    test_partial_update_booking(token, fixture[1], authAns, ans))

TestDelete ==
    \E createAns \in CreateAnswers(DefaultBooking),
       authAns \in IF Truthy(token) THEN {NoAnswer} ELSE RunAuthAnswers,
       deleteAns \in DeleteAnswers, getAns \in GetAnswers :
        Plain("test_delete_booking",
              test_delete_booking(token, createAns, authAns, deleteAns, getAns))

TestFieldTypes ==
    \E field \in TypedFields, ans \in GetAnswers :
        WithFixture("test_booking_response_field_types",
                    test_booking_response_field_types(token, fixture[1], field, ans))

TestHealthCheck ==
    \E ans \in PingAnswers, attrsOk \in BOOLEAN :
        Plain("test_api_health_check", test_api_health_check(token, ans, attrsOk))

TestAuth ==
    \E ans \in RunAuthAnswers :
        Plain("test_auth_with_valid_credentials",
              test_auth_with_valid_credentials(token, ans))

RunNext ==
    \/ ServiceSetup
    \/ ServiceTeardown
    \/ CreatedBookingSetup
    \/ CreatedBookingTeardown
    \/ TestCreateBooking
    \/ TestCreateVarious
    \/ TestGetExisting
    \/ TestGetNonexistent
    \/ TestGetAllIds
    \/ TestGetFiltered
    \/ TestUpdateFull
    \/ TestPartialUpdate
    \/ TestDelete
    \/ TestFieldTypes
    \/ TestHealthCheck
    \/ TestAuth

SpecRun == Init /\ [][RunNext]_vars

(***************************************************************************)
(* Properties of a test run.                                               *)
(***************************************************************************)
\* the step is the teardown of created_booking
IsCleanup == stage = "called" /\ stage' = "idle"

\* C7: in the teardown of created_booking a delete that raises (a transport
\* error in the DELETE or in the authentication it triggers included) is
\* caught and logged as a warning: no exception leaves the teardown and the
\* scenario keeps the outcome its test gave it.
C7_CleanupNeverFails ==
    [][ IsCleanup =>
            /\ outcome' = outcome
            /\ ~teardownError'
            /\ result'.raised => log' = "warning"
            /\ ~result'.raised => log' = "info" ]_vars

C7_Witness ==
    /\ stage = "idle"
    /\ test \in FixtureTests
    /\ outcome = "passed"
    /\ log = "warning"
    /\ result.raised
    /\ result.exc = "Timeout"
    /\ Len(sent) = 1
    /\ IsAuthPost(sent[1])
    /\ ~teardownError

ScenarioFinished == stage = "idle" /\ nScenarios > 0

\* C8: when a scenario has finished, passed or failed, a delete was attempted
\* for every booking it created on the remote service.
C8_CreatedBookingsDeleted ==
    ScenarioFinished => owned \subseteq deleteTried

\* C9: the session is released once, when no scenario is in progress (the
\* cleanup delete of created_booking is done), and no request is issued on
\* it after its release.
C9_SessionReleasedOnceAtEnd ==
    /\ nCloses <= 1
    /\ (session = "closed") <=> (nCloses = 1)
    /\ session = "closed" => stage = "idle"
    /\ ~sentOnClosed

C9_Witness ==
    /\ session = "closed"
    /\ nCloses = 1
    /\ nScenarios = MaxScenarios
    /\ test \in FixtureTests
    /\ log = "info"
    /\ Len(sent) > 0
    /\ sent[Len(sent)].method = "DELETE"


(***************************************************************************)
(* A scenario holding a Booking: Booking and BookingDates are plain        *)
(* dataclasses, so an attribute of either can be assigned after            *)
(* construction; to_dict() can be called at any point.                     *)
(***************************************************************************)
AssignField ==
    /\ \/ \E v \in Names : booking' = [booking EXCEPT !.firstname = v]
       \/ \E v \in Prices : booking' = [booking EXCEPT !.totalprice = v]
       \/ \E v \in Needs : booking' = [booking EXCEPT !.additionalneeds = v]
    /\ UNCHANGED <<data, args, got, remote, svcVars, runVars>>

AssignDate ==
    /\ \/ \E v \in Dates : booking' = [booking EXCEPT !.bookingdates.checkin = v]
       \/ \E v \in Dates : booking' = [booking EXCEPT !.bookingdates.checkout = v]
    /\ UNCHANGED <<data, args, got, remote, svcVars, runVars>>

ObjectNext ==
    \/ ToDict
    \/ AssignField
    \/ AssignDate

SpecObject == DataInit /\ [][ObjectNext]_vars

\* C11: a Booking is immutable once constructed: no step changes a field of
\* it or of its date range, and a later to_dict() gives what an earlier one
\* gave.
C11_BookingImmutable ==
    [][/\ booking' = booking
       /\ data # EmptyDict => data' = data]_vars

(***************************************************************************)
(* get_booking_ids applied to each combination of its four filters, each   *)
(* left out (None), empty or set.                                          *)
(***************************************************************************)
FilterArgs ==
    { <<f, l, ci, co>> : f \in {None, Some(""), Some("Alice")},
                         l \in {None, Some(""), Some("Smith")},
                         ci \in {None, Some(""), Some("2025-03-01")},
                         co \in {None, Some(""), Some("2025-03-05")} }

\* a service that was called with nothing but the arguments drawn
ArgsInit(inputs) ==
    /\ SvcInit
    /\ RunInit
    /\ booking = DefaultBooking
    /\ data = EmptyDict
    /\ got = None
    /\ remote = NoBookings
    /\ args \in inputs

\* the service after a method called with args gave r
Applied(op, r) ==
    /\ token' = r.token
    /\ sent' = r.wire
    /\ result' = CallerResult(op, r)
    /\ UNCHANGED <<nCalls, nAuthPosts, nTokenWrites, explicitAuth, everToken,
                   dataVars, runVars>>

ListBookingIds ==
    \E ans \in BookingAnswers :
        Applied("get_booking_ids",
                get_booking_ids(token, <<>>, args[1], args[2], args[3], args[4], ans))

SpecFilters == ArgsInit(FilterArgs) /\ [][ListBookingIds]_vars

FilterNames == <<"firstname", "lastname", "checkin", "checkout">>

\* C12: get_booking_ids sends one GET to the collection endpoint whose query
\* holds exactly the filters given a non-empty value, each with that value;
\* with no filter, or only empty ones, the query is empty.
C12_FilterQuery ==
    result.op = "get_booking_ids" =>
        /\ Len(sent) = 1
        /\ sent[1].method = "GET"
        /\ sent[1].url = BASE_URL \o "/booking"
        /\ sent[1].json = None
        /\ sent[1].params # None
        /\ LET query == sent[1].params[1]
               nonEmpty == {i \in 1..4 : args[i] # None /\ args[i] # Some("")}
           IN  /\ DOMAIN query = {FilterNames[i] : i \in nonEmpty}
               /\ \A i \in nonEmpty : query[FilterNames[i]] = args[i][1]
               /\ nonEmpty = {} => query = EmptyDict

C12_Witness ==
    /\ result.op = "get_booking_ids"
    /\ args = <<Some("Alice"), Some(""), None, Some("2025-03-05")>>
    /\ DOMAIN sent[1].params[1] = {"firstname", "checkout"}

(***************************************************************************)
(* The remote booking service, as the interface contract describes it: it  *)
(* stores bookings by the ids it assigns, answers GET of an absent id with *)
(* 404, replaces a booking on PUT, merges the fields given on PATCH and    *)
(* removes it on DELETE.  PUT, PATCH and DELETE need the cookie of a token *)
(* it issued.  What the contract leaves open (the statuses of a refused or *)
(* misdirected request) is given the statuses of the public service.       *)
(***************************************************************************)
RemoteToken == "abc123"
ServedIds == (1..MaxId) \cup {999999999}
BookingPath(id) == _url(ENDPOINT \o "/" \o ToString(id))
IsBookingPath(url) == \E id \in ServedIds : url = BookingPath(id)
IdOf(url) == CHOOSE id \in ServedIds : url = BookingPath(id)
Stored(rem, url) == IsBookingPath(url) /\ IdOf(url) \in DOMAIN rem.bookings
HasCredential(e) ==
    /\ "Cookie" \in DOMAIN e.headers
    /\ e.headers["Cookie"] = "token=" \o RemoteToken
IdList(rem) ==
    LET all == [i \in 1..rem.issued |-> i]
        kept == SelectSeq(all, LAMBDA i : i \in DOMAIN rem.bookings)
    IN  [i \in 1..Len(kept) |-> [bookingid |-> kept[i]]]

\* the bookings stored once the request of exchange e is served
remote_after(rem, e) ==
    IF e.method = "POST" /\ e.url = _url(ENDPOINT) /\ e.json # None
    THEN [bookings |-> ((rem.issued + 1) :> e.json[1]) @@ rem.bookings,
          issued |-> rem.issued + 1]
    ELSE IF ~(Stored(rem, e.url) /\ HasCredential(e)) THEN rem
    ELSE IF e.method = "PUT" /\ e.json # None
    THEN [rem EXCEPT !.bookings[IdOf(e.url)] = e.json[1]]
    ELSE IF e.method = "PATCH" /\ e.json # None
    THEN [rem EXCEPT !.bookings[IdOf(e.url)] = e.json[1] @@ @]
    ELSE IF e.method = "DELETE"
    THEN [rem EXCEPT !.bookings =
                         [id \in DOMAIN rem.bookings \ {IdOf(e.url)} |-> rem.bookings[id]]]
    ELSE rem

\* the response to the request of exchange e
remote_response(rem, e) ==
    IF e.url = _url(AUTH_ENDPOINT)
    THEN IF /\ e.method = "POST" /\ e.json # None
            /\ e.json[1] = [username |-> AUTH_USERNAME, password |-> AUTH_PASSWORD]
         THEN Response(200, JsonBody([token |-> RemoteToken]))
         ELSE Response(200, JsonBody([reason |-> "Bad credentials"]))
    ELSE IF e.url = _url(ENDPOINT)
    THEN IF e.method = "GET" THEN Response(200, ListBody(IdList(rem)))
         ELSE IF e.method = "POST" /\ e.json # None
         THEN Response(200, JsonBody([bookingid |-> rem.issued + 1,
                                      booking |-> e.json[1]]))
         ELSE Response(404, TextBody)
    ELSE IF ~IsBookingPath(e.url) THEN Response(404, TextBody)
    ELSE IF e.method = "GET"
    THEN IF Stored(rem, e.url)
         THEN Response(200, JsonBody(rem.bookings[IdOf(e.url)]))
         ELSE Response(404, TextBody)
    ELSE IF ~HasCredential(e) THEN Response(403, TextBody)
    ELSE IF ~Stored(rem, e.url) THEN Response(405, TextBody)
    ELSE IF e.method \in {"PUT", "PATCH"} /\ e.json # None
    THEN Response(200, JsonBody(remote_after(rem, e).bookings[IdOf(e.url)]))
    ELSE IF e.method = "DELETE" THEN Response(201, TextBody)
    ELSE Response(404, TextBody)

\* a request may be lost before the remote sees it, or its response after
Losses == {"none", "request", "response"}

\* exchange e on the wire: served, or timed out with or without its effect
Serve(rem, e, lost) ==
    IF lost = "request" THEN [answer |-> Timeout, remote |-> rem]
    ELSE IF lost = "response"
    THEN [answer |-> Timeout, remote |-> remote_after(rem, e)]
    ELSE [answer |-> remote_response(rem, e), remote |-> remote_after(rem, e)]

\* what can happen to the lazy POST /auth: nothing when a token is cached
AuthLosses(tok) == IF Truthy(tok) THEN {"none"} ELSE Losses

\* the method op of the service called with the arguments a
Invoke(op, a, tok, authAns, ans) ==
    CASE op = "create_booking" -> create_booking(tok, <<>>, a[1], ans)
      [] op = "get_booking" -> get_booking(tok, <<>>, a[1], ans)
      [] op = "update_booking" -> update_booking(tok, <<>>, a[1], a[2], authAns, ans)
      [] op = "partial_update_booking" ->
             partial_update_booking(tok, <<>>, a[1], a[2], authAns, ans)
      [] op = "delete_booking" -> delete_booking(tok, <<>>, a[1], authAns, ans)

\* no request served
Unserved(rem) == [answer |-> NoAnswer, remote |-> rem]

\* the service and the remote after op(a): the lazy POST /auth of op, when
\* it sends one, is served first, then its own request, when it sends one
ServedCall(op, a, lostAuth, lost) ==
    /\ \E first \in {Invoke(op, a, token, Timeout, Timeout).wire[1]} :
       \E s1 \in {IF IsAuthPost(first) THEN Serve(remote, first, lostAuth)
                   ELSE Unserved(remote)} :
       \E probe \in {Invoke(op, a, token, s1.answer, Timeout).wire} :
       \E own \in {IF IsAuthPost(first) THEN 2 ELSE 1} :
       \E s2 \in {IF Len(probe) >= own THEN Serve(s1.remote, probe[own], lost)
                   ELSE Unserved(s1.remote)} :
       \E r \in {Invoke(op, a, token, s1.answer, s2.answer)} :
           /\ token' = r.token
           /\ sent' = r.wire
           /\ result' = CallerResult(op, r)
           /\ remote' = s2.remote
    /\ args' = a
    /\ UNCHANGED <<nCalls, nAuthPosts, nTokenWrites, explicitAuth, everToken,
                   booking, data, got, runVars>>

FullUpdates ==
    { UpdatedBooking,
      Booking("Bob", "Johnson", 0, FALSE, BookingDates("2025-06-15", "2025-06-20"),
              None) }

CreateServed ==
    /\ remote.issued < MaxId
    /\ \E b \in SampleBookings, lost \in Losses :
           ServedCall("create_booking", <<b>>, "none", lost)

GetServed ==
    \E id \in ServedIds, lost \in Losses :
        ServedCall("get_booking", <<id>>, "none", lost)

UpdateServed ==
    \E id \in ServedIds, b \in FullUpdates, lostAuth \in AuthLosses(token),
       lost \in Losses :
        ServedCall("update_booking", <<id, b>>, lostAuth, lost)

PatchServed ==
    \E id \in ServedIds, lostAuth \in AuthLosses(token), lost \in Losses :
        ServedCall("partial_update_booking", <<id, PatchedFields>>, lostAuth, lost)

DeleteServed ==
    \E id \in ServedIds, lostAuth \in AuthLosses(token), lost \in Losses :
        ServedCall("delete_booking", <<id>>, lostAuth, lost)

RemoteNext ==
    \/ CreateServed
    \/ GetServed
    \/ UpdateServed
    \/ PatchServed
    \/ DeleteServed

SpecRemote == Init /\ [][RemoteNext]_vars

\* C13: get_booking of an id the remote service does not store returns 404;
\* so does the get_booking that immediately follows a delete_booking of
\* the same id, created before, that returned 201.
C13_AbsentIs404 ==
    [][(result'.op = "get_booking" /\ ~result'.raised) =>
           /\ args'[1] \notin DOMAIN remote.bookings
                  => result'.response.status = 404
           /\ ( /\ result.op = "delete_booking"
                /\ ~result.raised
                /\ result.response.status = 201
                /\ args[1] = args'[1]
                /\ args[1] \in 1..remote.issued )
                  => result'.response.status = 404]_vars

C13_Witness ==
    /\ result.op = "get_booking"
    /\ args = <<1>>
    /\ remote.issued >= 1
    /\ 1 \notin DOMAIN remote.bookings
    /\ token = Some(RemoteToken)
    /\ ~result.raised
    /\ result.response.status = 404

\* C14: on a booking the remote service stores, an update_booking that
\* returns has replaced every field by the serialized fields of the Booking
\* given, and a partial_update_booking that returns has set the fields of
\* its field map and left every other field at its value before the call.
C14_UpdateReplacesPatchMerges ==
    [][/\ ( /\ result'.op = "update_booking"
            /\ ~result'.raised
            /\ args'[1] \in DOMAIN remote.bookings )
              => /\ result'.response.status = 200
                 /\ remote'.bookings[args'[1]] = to_dict(args'[2])
                 /\ result'.response.body.obj = to_dict(args'[2])
                 /\ \A id \in DOMAIN remote.bookings \ {args'[1]} :
                        /\ id \in DOMAIN remote'.bookings
                        /\ remote'.bookings[id] = remote.bookings[id]
       /\ ( /\ result'.op = "partial_update_booking"
            /\ ~result'.raised
            /\ args'[1] \in DOMAIN remote.bookings )
              => LET old == remote.bookings[args'[1]]
                     new == remote'.bookings[args'[1]]
                     fields == args'[2]
                 IN  /\ result'.response.status = 200
                     /\ DOMAIN new = DOMAIN old \cup DOMAIN fields
                     /\ \A k \in DOMAIN fields : new[k] = fields[k]
                     /\ \A k \in DOMAIN old \ DOMAIN fields : new[k] = old[k]
                     /\ result'.response.body.obj = new]_vars

C14_Witness ==
    /\ result.op = "partial_update_booking"
    /\ ~result.raised
    /\ result.response.status = 200
    /\ args = <<1, PatchedFields>>
    /\ 1 \in DOMAIN remote.bookings
    /\ remote.bookings[1] = PatchedFields @@ to_dict(UpdatedBooking)
    /\ remote.bookings[1].lastname = "User"

(***************************************************************************)
(* assert_booking_fields applied to each pair of a response's booking and  *)
(* a dict of expected values, either of which may lack any key.            *)
(***************************************************************************)
\* the dict with key k when a value is given, the empty dict otherwise
Entry(k, o) == IF o = None THEN EmptyDict ELSE k :> o[1]

DateDicts ==
    { Entry("checkin", ci) @@ Entry("checkout", co) :
          ci \in {None, Some("2025-03-01"), Some("2025-06-15")},
          co \in {None, Some("2025-03-05")} }

FieldDicts ==
    { Entry("firstname", f) @@ Entry("totalprice", p) @@ Entry("bookingdates", d) :
          f \in {None, Some("Alice"), Some("Bob")},
          p \in {None, Some(200)},
          d \in {None} \cup {Some(x) : x \in DateDicts} }

AssertBookingFields ==
    /\ got' = Some(assert_booking_fields(args[1], args[2]))
    /\ UNCHANGED <<svcVars, booking, data, args, remote, runVars>>

SpecAssert == ArgsInit(FieldDicts \X FieldDicts) /\ [][AssertBookingFields]_vars

\* every key of expected has an equal value in booking_data, the dates
\* compared key by key
Agrees(booking_data, expected) ==
    \A k \in DOMAIN expected :
        /\ k \in DOMAIN booking_data
        /\ IF k = "bookingdates"
           THEN \A dk \in DOMAIN expected[k] :
                    /\ dk \in DOMAIN booking_data[k]
                    /\ booking_data[k][dk] = expected[k][dk]
           ELSE booking_data[k] = expected[k]

\* C15: assert_booking_fields returns nothing exactly when every key of
\* expected has an equal value in booking_data, and raises an assertion
\* failure, never another error, in every other case.
C15_OnlyAssertionFailures ==
    got # None =>
        got[1] = IF Agrees(args[1], args[2]) THEN "ok" ELSE "AssertionError"

(***************************************************************************)
(* The factory applied to each set of overrides: any field left alone or   *)
(* overridden, the date range given as a BookingDates or as a raw dict,    *)
(* additionalneeds overridden to None, to "" or to a text.                 *)
(***************************************************************************)
Overrides ==
    { Entry("firstname", f) @@ Entry("lastname", l) @@ Entry("totalprice", p)
        @@ Entry("depositpaid", d) @@ Entry("bookingdates", bd)
        @@ Entry("additionalneeds", n) :
          f \in {None, Some("Alice")},
          l \in {None, Some("")},
          p \in {None, Some(0)},
          d \in {None, Some(FALSE)},
          bd \in {None,
                  Some(BookingDates("2025-03-01", "2025-03-05")),
                  Some([checkin |-> "2025-03-01", checkout |-> "2025-03-05"])},
          n \in {None, Some(None), Some(Some("")), Some(Some("Lunch"))} }

CreateValidBooking ==
    /\ got' = Some([booking |-> create_valid_booking(args),
                    payload |-> create_booking_payload(args)])
    /\ UNCHANGED <<svcVars, booking, data, args, remote, runVars>>

SpecFactory == ArgsInit(Overrides) /\ [][CreateValidBooking]_vars

ScalarFields == {"firstname", "lastname", "totalprice", "depositpaid", "additionalneeds"}

\* C16: the Booking of the factory has the override's value in every
\* overridden field and the default in every other; a raw dict of dates
\* gives the BookingDates with those dates; additionalneeds overridden to
\* None is left out of the payload; and create_booking_payload gives the
\* to_dict() of that Booking.
C16_Factory ==
    got # None =>
        LET made == got[1].booking
        IN  /\ \A k \in ScalarFields :
                   made[k] = IF k \in DOMAIN args THEN args[k] ELSE DefaultBooking[k]
            /\ made.bookingdates =
                   IF "bookingdates" \in DOMAIN args
                   THEN BookingDates(args.bookingdates.checkin,
                                     args.bookingdates.checkout)
                   ELSE BookingDates("2025-01-01", "2025-01-10")
            /\ ("additionalneeds" \in DOMAIN args /\ args.additionalneeds = None)
                   => "additionalneeds" \notin DOMAIN got[1].payload
            /\ got[1].payload = to_dict(made)
            /\ DOMAIN got[1].payload \ {"additionalneeds"} = BookingKeys
            /\ got[1].payload.bookingdates =
                   [checkin |-> made.bookingdates.checkin,
                    checkout |-> made.bookingdates.checkout]

C16_Witness ==
    /\ got # None
    /\ DOMAIN args = {"firstname", "bookingdates", "additionalneeds"}
    /\ args.bookingdates = [checkin |-> "2025-03-01", checkout |-> "2025-03-05"]
    /\ args.additionalneeds = None
    /\ got[1].booking.firstname = "Alice"
    /\ got[1].booking.lastname = "Doe"
    /\ got[1].booking.bookingdates = BookingDates("2025-03-01", "2025-03-05")
    /\ "additionalneeds" \notin DOMAIN got[1].payload

(***************************************************************************)
(* authenticate applied, any number of times, to each pair of a username   *)
(* and a password, either left out (None), empty or set.                   *)
(***************************************************************************)
AuthArgs ==
    { <<u, p>> : u \in {None, Some(""), Some("tester")},
                 p \in {None, Some(""), Some("secret")} }

AuthenticateWith ==
    \E ans \in AuthAnswers :
        Applied("authenticate", authenticate(token, <<>>, args[1], args[2], ans))

SpecAuth == ArgsInit(AuthArgs) /\ [][AuthenticateWith]_vars

\* C17: after authenticate(username, password) returns, the value returned,
\* the cached token and the token field of the response body are the same
\* (None when the body has no such field), whatever was cached before, and
\* the credentials posted are the given ones, the configured default
\* standing in for each argument left out.
C17_Authenticate ==
    (result.op = "authenticate" /\ ~result.raised) =>
        /\ Len(sent) = 1
        /\ sent[1].method = "POST"
        /\ sent[1].url = BASE_URL \o "/auth"
        /\ result.ret = token
        /\ token = IF "token" \in DOMAIN sent[1].answer.body.obj
                   THEN Some(sent[1].answer.body.obj.token)
                   ELSE None
        /\ sent[1].json =
               Some([username |-> IF args[1] = None THEN "admin" ELSE args[1][1],
                     password |-> IF args[2] = None THEN "password123"
                                  ELSE args[2][1]])

\* a response whose body is a JSON object with no token field
NoTokenField(ans) ==
    /\ IsResponse(ans)
    /\ ans.body.json
    /\ ~ans.body.list
    /\ "token" \notin DOMAIN ans.body.obj

\* C18, as stated: an authorized operation called before any answer of
\* POST /auth has carried a non-empty token issues one POST /auth before its
\* own request, and the cache stays empty when that answer has no token
\* field; once an answer has carried a non-empty token, no later authorized
\* operation issues a POST /auth.
C18_FailureNotFinal ==
    [][ (nCalls' # nCalls /\ result'.op \in AuthorizedOps) =>
            IF everToken
            THEN CountAuthPosts(sent') = 0
            ELSE /\ CountAuthPosts(sent') = 1
                 /\ IsAuthPost(sent'[1])
                 /\ NoTokenField(sent'[1].answer) => token' = None ]_vars

\* C18, amended: an authorized operation called with no non-empty token
\* cached issues exactly one POST /auth, first, and when the answer has no
\* token field the cache stays empty and the operation's own request
\* follows; called with a non-empty token cached it issues no POST /auth and
\* leaves the token; the open operations never touch the cache, so only an
\* explicit authenticate() can replace or empty a cached token.
C18_EmptyCacheRetries ==
    [][ nCalls' # nCalls =>
            /\ (result'.op \in AuthorizedOps /\ ~Truthy(token)) =>
                   /\ CountAuthPosts(sent') = 1
                   /\ IsAuthPost(sent'[1])
                   /\ NoTokenField(sent'[1].answer) =>
                          /\ token' = None
                          /\ Len(sent') = 2
                          /\ sent'[2].method \in {"PUT", "PATCH", "DELETE"}
            /\ (result'.op \in AuthorizedOps /\ Truthy(token)) =>
                   /\ CountAuthPosts(sent') = 0
                   /\ token' = token
            /\ result'.op \in OpenOps => token' = token ]_vars

C18_Witness ==
    /\ everToken
    /\ explicitAuth
    /\ token = None
    /\ result.op \in AuthorizedOps
    /\ Len(sent) = 2
    /\ IsAuthPost(sent[1])
    /\ NoTokenField(sent[1].answer)
    /\ sent[2].method = "DELETE"


====
